---- MODULE Spec2Model ----
(***************************************************************************)
(* Model of pkg/loadbalancer/ipvs.go: the IPVS load balancer handle        *)
(* (NewIPVSLB, RemoveIPVSLB, AddBackend, RemoveBackend) running against    *)
(* the kernel's IPVS table, which is shared by every process on the host.  *)
(* Every call of the ipvs.Client is one atomic step on the table; a        *)
(* NewIPVSLB that takes the recovery path is three such steps, and other   *)
(* processes may run between them.                                         *)
(***************************************************************************)
EXTENDS Integers, Sequences, FiniteSets, TLC

VARIABLES
    services,   \* the kernel table: the registered ipvs.Service descriptors
    dests,      \* the kernel table: the registered ipvs.Destination entries
    pc,         \* pc[i]: where process i stands inside NewIPVSLB
    lb,         \* lb[i]: the *IPVSLoadBalancer the latest NewIPVSLB of process i
                \* returned (NilLB: nil, also while that NewIPVSLB runs)
    frame,      \* frame[i]: the locals of a NewIPVSLB in progress, with the
                \* table calls it has made so far
    last        \* history: the operation that returned last, with its
                \* arguments, the error it returned and its table calls

vars == <<services, dests, pc, lb, frame, last>>

----------------------------------------------------------------------------
(* Bounds and inputs *)

NumProc == 2

Proc == 1..NumProc

\* the (address, port) arguments NewIPVSLB is called with
VIPInputs == {<<"10.0.0.1", 6443>>, <<"10.0.0.1", 71979>>}

\* the (address, port) arguments AddBackend and RemoveBackend are called with
BackendInputs == {<<"10.0.0.10", 6443>>, <<"10.0.0.10", 71979>>, <<"10.0.0.11", 6443>>}

----------------------------------------------------------------------------
(* Values *)

ROUNDROBIN == "rr"

INET == "INET"
TCP == "TCP"
Local == "Local"
Masquerade == "Masquerade"      \* the zero value of ipvs.ForwardType

\* error messages, as the words of err.Error(); the empty message is nil
nil == << >>
EEXIST == <<"file", "exists">>
ESRCH == <<"no", "such", "process">>
ENOENT == <<"no", "such", "file", "or", "directory">>
EPERM == <<"operation", "not", "permitted">>

\* the failures of the transport (netlink, permissions) a table call may hit
Faults == {EPERM}

NilSvc == [Family |-> "", Protocol |-> "", Port |-> 0, Address |-> "", Scheduler |-> ""]
NilLB == [Port |-> 0, loadBalancerService |-> NilSvc, client |-> FALSE]

\* mutant: the port is kept as passed
Uint16_NoWrap(n) == n

\* uint16(port)
Uint16(n) == n % 65536

\* net.ParseIP followed by ipvs.NewIP: the textual forms of one address
\* give one IP
ParseIP(s) ==
    CASE s = "10.0.0.1" -> "10.0.0.1"
      [] s = "10.0.0.10" -> "10.0.0.10"
      [] s = "::ffff:10.0.0.10" -> "10.0.0.10"
      [] s = "10.0.0.11" -> "10.0.0.11"

\* strings.Contains(s, sub), on the words of the messages
Contains(s, sub) ==
    \E k \in 0..(Len(s) - Len(sub)) : SubSeq(s, k + 1, k + Len(sub)) = sub

\* fmt.Errorf("<context>: %v", err)
Errorf(context, err) == context \o err

CtxClient == <<"error", "creating", "IPVS", "client:">>
CtxCreate == <<"error", "creating", "IPVS", "service:">>
CtxRecreate == <<"error", "re-creating", "IPVS", "service:">>
CtxRemove == <<"error", "removing", "existing", "IPVS", "service:">>
CtxAddBackend == <<"error", "creating", "backend:">>
CtxRemoveBackend == <<"error", "removing", "backend:">>

----------------------------------------------------------------------------
(* The kernel table behind ipvs.Client.  A service is identified by          *)
(* (family, protocol, address, port), a destination by (address, port)      *)
(* within its service.  Each operator gives the error the call returns and  *)
(* the table after it; fault is the transport failure the call hits, or nil.*)

SvcKey(s) == [Family |-> s.Family, Protocol |-> s.Protocol,
              Address |-> s.Address, Port |-> s.Port]

DstKey(d) == [Address |-> d.Address, Port |-> d.Port]

Registered(svcs, svc) == \E s \in svcs : SvcKey(s) = SvcKey(svc)

Attached(dsts, svc, dst) ==
    \E e \in dsts : e.svc = SvcKey(svc) /\ DstKey(e.dst) = DstKey(dst)

\* mutant: a service is registered without looking for its tuple
CreateService_NoCheck(svcs, dsts, svc, fault) ==
    IF fault # nil THEN [err |-> fault, services |-> svcs, dests |-> dsts]
    ELSE [err |-> nil, services |-> svcs \cup {svc}, dests |-> dsts]

CreateService(svcs, dsts, svc, fault) ==
    IF fault # nil THEN [err |-> fault, services |-> svcs, dests |-> dsts]
    ELSE IF Registered(svcs, svc)
         THEN [err |-> EEXIST, services |-> svcs, dests |-> dsts]
         ELSE [err |-> nil, services |-> svcs \cup {svc}, dests |-> dsts]

RemoveService(svcs, dsts, svc, fault) ==
    IF fault # nil THEN [err |-> fault, services |-> svcs, dests |-> dsts]
    ELSE IF ~Registered(svcs, svc)
         THEN [err |-> ESRCH, services |-> svcs, dests |-> dsts]
         ELSE [err |-> nil,
               services |-> {s \in svcs : SvcKey(s) # SvcKey(svc)},
               dests |-> {e \in dsts : e.svc # SvcKey(svc)}]

CreateDestination(svcs, dsts, svc, dst, fault) ==
    IF fault # nil THEN [err |-> fault, services |-> svcs, dests |-> dsts]
    ELSE IF ~Registered(svcs, svc)
         THEN [err |-> ESRCH, services |-> svcs, dests |-> dsts]
         ELSE IF Attached(dsts, svc, dst)
              THEN [err |-> EEXIST, services |-> svcs, dests |-> dsts]
              ELSE [err |-> nil, services |-> svcs,
                    dests |-> dsts \cup {[svc |-> SvcKey(svc), dst |-> dst]}]

RemoveDestination(svcs, dsts, svc, dst, fault) ==
    IF fault # nil THEN [err |-> fault, services |-> svcs, dests |-> dsts]
    ELSE IF ~Registered(svcs, svc)
         THEN [err |-> ESRCH, services |-> svcs, dests |-> dsts]
         ELSE IF ~Attached(dsts, svc, dst)
              THEN [err |-> ENOENT, services |-> svcs, dests |-> dsts]
              ELSE [err |-> nil, services |-> svcs,
                    dests |-> {e \in dsts : ~(e.svc = SvcKey(svc)
                                              /\ DstKey(e.dst) = DstKey(dst))}]

----------------------------------------------------------------------------
(* The descriptors the code builds *)

\* the ipvs.Service of NewIPVSLB
NewService(address, port) ==
    [Family |-> INET, Protocol |-> TCP, Port |-> Uint16(port),
     Address |-> ParseIP(address), Scheduler |-> ROUNDROBIN]

\* mutant: the address of the backend is lost (the zero IP is registered)
AddDestination_ZeroIP(address, port) ==
    [Address |-> "0.0.0.0", Port |-> Uint16(port), Family |-> INET,
     Weight |-> 1, FwdMethod |-> Local]

\* mutant: AddBackend leaves FwdMethod at its zero value, as RemoveBackend does
AddDestination_NoFwd(address, port) ==
    [Address |-> ParseIP(address), Port |-> Uint16(port), Family |-> INET,
     Weight |-> 1, FwdMethod |-> Masquerade]

\* the ipvs.Destination of AddBackend
AddDestination(address, port) ==
    [Address |-> ParseIP(address), Port |-> Uint16(port), Family |-> INET,
     Weight |-> 1, FwdMethod |-> Local]

\* mutant: the port is not converted as AddBackend converts it
RemoveDst_NoWrap(address, port) ==
    [Address |-> ParseIP(address), Port |-> port, Family |-> INET,
     Weight |-> 1, FwdMethod |-> Masquerade]

\* the ipvs.Destination of RemoveBackend (FwdMethod is left at its zero value)
RemoveDst(address, port) ==
    [Address |-> ParseIP(address), Port |-> Uint16(port), Family |-> INET,
     Weight |-> 1, FwdMethod |-> Masquerade]

\* the *IPVSLoadBalancer NewIPVSLB returns
NewLB(svc, port) == [Port |-> port, loadBalancerService |-> svc, client |-> TRUE]

NilFrame == [svc |-> NilSvc, port |-> 0, address |-> "", calls |-> << >>]

\* mutant: the match on "file exists" never succeeds
IsFileExists_Never(err) == FALSE

\* mutant: every error of CreateService is taken for "file exists"
IsFileExists_Any(err) == err # nil

\* strings.Contains(err.Error(), "file exists") of a non-nil error
IsFileExists(err) == err # nil /\ Contains(err, EEXIST)

\* mutant: "file exists" is not swallowed
AddBackendErr_NoSwallow(err) ==
    IF err # nil THEN Errorf(CtxAddBackend, err) ELSE nil

\* mutant: a missing service is swallowed like a duplicate
AddBackendErr_SwallowNoService(err) ==
    IF err # nil /\ ~Contains(err, EEXIST) /\ ~Contains(err, ESRCH)
    THEN Errorf(CtxAddBackend, err) ELSE nil

\* the error AddBackend returns for the error of CreateDestination
AddBackendErr(err) ==
    IF err # nil /\ ~Contains(err, EEXIST) THEN Errorf(CtxAddBackend, err) ELSE nil

\* mutant: a missing backend is swallowed, as AddBackend swallows a duplicate
RemoveBackendErr_SwallowMissing(err) ==
    IF err # nil /\ ~Contains(err, <<"no", "such", "file">>)
    THEN Errorf(CtxRemoveBackend, err) ELSE nil

\* the error RemoveBackend returns for the error of RemoveDestination
RemoveBackendErr(err) ==
    IF err # nil THEN Errorf(CtxRemoveBackend, err) ELSE nil

\* the error RemoveIPVSLB returns for the error of RemoveService
RemoveIPVSLBErr(err) ==
    IF err # nil THEN Errorf(CtxRemove, err) ELSE nil

----------------------------------------------------------------------------
(* The operations as functions of the table: the error returned, the table  *)
(* afterwards and the table calls made.  h is the handle, fault the          *)
(* transport failure the table call hits, or nil.                           *)

Call(name, err) == [call |-> name, err |-> err]

\* what one step of NewIPVSLB yields: pc "idle" means NewIPVSLB has returned
\* (lb, err); otherwise pc is the step that follows and frame its locals
Outcome(nextpc, handle, err, f, r, cs) ==
    [pc |-> nextpc, lb |-> handle, err |-> err, frame |-> f,
     services |-> r.services, dests |-> r.dests, calls |-> cs]

\* NewIPVSLB up to the branch on the error of its first CreateService;
\* newErr is the error of ipvs.New()
NewIPVSLBCreate(svcs, dsts, address, port, newErr, fault) ==
    LET svc == NewService(address, port)
        r == CreateService(svcs, dsts, svc, fault)
        cs == <<Call("CreateService", r.err)>>
        same == [services |-> svcs, dests |-> dsts]
    IN  IF newErr # nil
        THEN Outcome("idle", NilLB, Errorf(CtxClient, newErr), NilFrame, same, << >>)
        ELSE IF IsFileExists(r.err)
        THEN Outcome("remove", NilLB, nil,
                     [svc |-> svc, port |-> port, address |-> address, calls |-> cs],
                     r, cs)
        ELSE IF r.err # nil
        THEN Outcome("idle", NilLB, Errorf(CtxCreate, r.err), NilFrame, r, cs)
        ELSE Outcome("idle", NewLB(svc, port), nil, NilFrame, r, cs)

\* mutant: the recovery path goes to the second CreateService without
\* removing the descriptor
NewIPVSLBRemoveOp_Skip(svcs, dsts, f, fault) ==
    Outcome("recreate", NilLB, nil, f, [services |-> svcs, dests |-> dsts], f.calls)

\* NewIPVSLB, recovery path: RemoveService of the descriptor that was left
NewIPVSLBRemoveOp(svcs, dsts, f, fault) ==
    LET r == RemoveService(svcs, dsts, f.svc, fault)
        cs == Append(f.calls, Call("RemoveService", r.err))
    IN  IF r.err # nil
        THEN Outcome("idle", NilLB, Errorf(CtxRecreate, r.err), NilFrame, r, cs)
        ELSE Outcome("recreate", NilLB, nil, [f EXCEPT !.calls = cs], r, cs)

\* mutant: the error of the second CreateService is not looked at
NewIPVSLBRecreateOp_Unchecked(svcs, dsts, f, fault) ==
    LET r == CreateService(svcs, dsts, f.svc, fault)
        cs == Append(f.calls, Call("CreateService", r.err))
    IN  Outcome("idle", NewLB(f.svc, f.port), nil, NilFrame, r, cs)

\* mutant: a second "file exists" sends NewIPVSLB back to RemoveService
NewIPVSLBRecreateOp_Loop(svcs, dsts, f, fault) ==
    LET r == CreateService(svcs, dsts, f.svc, fault)
        cs == Append(f.calls, Call("CreateService", r.err))
    IN  IF IsFileExists(r.err)
        THEN Outcome("remove", NilLB, nil, [f EXCEPT !.calls = cs], r, cs)
        ELSE IF r.err # nil
        THEN Outcome("idle", NilLB, Errorf(CtxRecreate, r.err), NilFrame, r, cs)
        ELSE Outcome("idle", NewLB(f.svc, f.port), nil, NilFrame, r, cs)

\* NewIPVSLB, recovery path: the second CreateService
NewIPVSLBRecreateOp(svcs, dsts, f, fault) ==
    LET r == CreateService(svcs, dsts, f.svc, fault)
        cs == Append(f.calls, Call("CreateService", r.err))
    IN  IF r.err # nil
        THEN Outcome("idle", NilLB, Errorf(CtxRecreate, r.err), NilFrame, r, cs)
        ELSE Outcome("idle", NewLB(f.svc, f.port), nil, NilFrame, r, cs)

\* mutant: a failed RemoveService is tried again
RemoveIPVSLBOp_Retry(svcs, dsts, h, fault) ==
    LET r1 == RemoveService(svcs, dsts, h.loadBalancerService, fault)
        r2 == RemoveService(svcs, dsts, h.loadBalancerService, nil)
    IN  IF r1.err = nil
        THEN [err |-> nil, services |-> r1.services, dests |-> r1.dests,
              calls |-> <<Call("RemoveService", r1.err)>>]
        ELSE [err |-> RemoveIPVSLBErr(r2.err), services |-> r2.services,
              dests |-> r2.dests,
              calls |-> <<Call("RemoveService", r1.err), Call("RemoveService", r2.err)>>]

RemoveIPVSLBOp(svcs, dsts, h, fault) ==
    LET r == RemoveService(svcs, dsts, h.loadBalancerService, fault)
    IN  [err |-> RemoveIPVSLBErr(r.err), services |-> r.services,
         dests |-> r.dests, calls |-> <<Call("RemoveService", r.err)>>]

\* mutant: on "file exists" the entry is replaced by the requested one
AddBackendOp_Update(svcs, dsts, h, address, port, fault) ==
    LET dst == AddDestination(address, port)
        r == CreateDestination(svcs, dsts, h.loadBalancerService, dst, fault)
        d == RemoveDestination(svcs, dsts, h.loadBalancerService, dst, nil)
        u == CreateDestination(d.services, d.dests, h.loadBalancerService, dst, nil)
    IN  IF r.err # nil /\ Contains(r.err, EEXIST)
        THEN [err |-> nil, services |-> u.services, dests |-> u.dests,
              calls |-> <<Call("CreateDestination", r.err)>>]
        ELSE [err |-> AddBackendErr(r.err), services |-> r.services,
              dests |-> r.dests, calls |-> <<Call("CreateDestination", r.err)>>]

AddBackendOp(svcs, dsts, h, address, port, fault) ==
    LET dst == AddDestination(address, port)
        r == CreateDestination(svcs, dsts, h.loadBalancerService, dst, fault)
    IN  [err |-> AddBackendErr(r.err), services |-> r.services,
         dests |-> r.dests, calls |-> <<Call("CreateDestination", r.err)>>]

\* mutant: RemoveBackend removes the service instead of the backend
RemoveBackendOp_RemoveService(svcs, dsts, h, address, port, fault) ==
    LET r == RemoveService(svcs, dsts, h.loadBalancerService, fault)
    IN  [err |-> RemoveBackendErr(r.err), services |-> r.services,
         dests |-> r.dests, calls |-> <<Call("RemoveService", r.err)>>]

RemoveBackendOp(svcs, dsts, h, address, port, fault) ==
    LET dst == RemoveDst(address, port)
        r == RemoveDestination(svcs, dsts, h.loadBalancerService, dst, fault)
    IN  [err |-> RemoveBackendErr(r.err), services |-> r.services,
         dests |-> r.dests, calls |-> <<Call("RemoveDestination", r.err)>>]

----------------------------------------------------------------------------
(* History *)

\* handle: the handle NewIPVSLB returned, or the receiver of the method
Entry(i, op, address, port, handle, err, cs) ==
    [proc |-> i, op |-> op, address |-> address, port |-> port, lb |-> handle,
     err |-> err, calls |-> cs]

NoEntry == Entry(0, "", "", 0, NilLB, nil, << >>)

\* NewIPVSLB returns (handle, err) to process i after the table calls cs
Return(i, address, port, handle, err, cs) ==
    /\ pc' = [pc EXCEPT ![i] = "idle"]
    /\ lb' = [lb EXCEPT ![i] = handle]
    /\ frame' = [frame EXCEPT ![i] = NilFrame]
    /\ last' = Entry(i, "NewIPVSLB", address, port, handle, err, cs)

----------------------------------------------------------------------------
(* The table a host may be left with by earlier processes *)

StaleService == [Family |-> INET, Protocol |-> TCP, Port |-> 6443,
                 Address |-> "10.0.0.1", Scheduler |-> "wrr"]

StaleDests ==
    { {},
      {[svc |-> SvcKey(StaleService),
        dst |-> [Address |-> "10.0.0.10", Port |-> 6443, Family |-> INET,
                 Weight |-> 5, FwdMethod |-> Masquerade]]} }

Init ==
    /\ \/ services = {} /\ dests = {}
       \/ services = {StaleService} /\ dests \in StaleDests
    /\ pc = [i \in Proc |-> "idle"]
    /\ lb = [i \in Proc |-> NilLB]
    /\ frame = [i \in Proc |-> NilFrame]
    /\ last = NoEntry

----------------------------------------------------------------------------
(* The operations *)

\* process i takes the step of NewIPVSLB whose outcome is o
Step(i, address, port, o) ==
    /\ services' = o.services
    /\ dests' = o.dests
    /\ IF o.pc = "idle"
       THEN Return(i, address, port, o.lb, o.err, o.calls)
       ELSE /\ pc' = [pc EXCEPT ![i] = o.pc]
            /\ frame' = [frame EXCEPT ![i] = o.frame]
            /\ lb' = [lb EXCEPT ![i] = NilLB]
            /\ UNCHANGED last

NewIPVSLB(i, address, port) ==
    /\ pc[i] = "idle"
    /\ \E newErr \in {nil} \cup Faults, fault \in {nil} \cup Faults :
        Step(i, address, port,
             NewIPVSLBCreate(services, dests, address, port, newErr, fault))

NewIPVSLBRemove(i) ==
    /\ pc[i] = "remove"
    /\ \E fault \in {nil} \cup Faults :
        Step(i, frame[i].address, frame[i].port,
             NewIPVSLBRemoveOp(services, dests, frame[i], fault))

NewIPVSLBRecreate(i) ==
    /\ pc[i] = "recreate"
    /\ \E fault \in {nil} \cup Faults :
        Step(i, frame[i].address, frame[i].port,
             NewIPVSLBRecreateOp(services, dests, frame[i], fault))

RemoveIPVSLB(i) ==
    /\ pc[i] = "idle"
    /\ lb[i] # NilLB
    /\ \E fault \in {nil} \cup Faults :
        LET o == RemoveIPVSLBOp(services, dests, lb[i], fault)
        IN  /\ services' = o.services
            /\ dests' = o.dests
            /\ last' = Entry(i, "RemoveIPVSLB", "", 0, lb[i], o.err, o.calls)
            /\ UNCHANGED <<pc, lb, frame>>

AddBackend(i, address, port) ==
    /\ pc[i] = "idle"
    /\ lb[i] # NilLB
    /\ \E fault \in {nil} \cup Faults :
        LET o == AddBackendOp(services, dests, lb[i], address, port, fault)
        IN  /\ services' = o.services
            /\ dests' = o.dests
            /\ last' = Entry(i, "AddBackend", address, port, lb[i], o.err, o.calls)
            /\ UNCHANGED <<pc, lb, frame>>

RemoveBackend(i, address, port) ==
    /\ pc[i] = "idle"
    /\ lb[i] # NilLB
    /\ \E fault \in {nil} \cup Faults :
        LET o == RemoveBackendOp(services, dests, lb[i], address, port, fault)
        IN  /\ services' = o.services
            /\ dests' = o.dests
            /\ last' = Entry(i, "RemoveBackend", address, port, lb[i], o.err, o.calls)
            /\ UNCHANGED <<pc, lb, frame>>

\* the destination another user of the host's table attaches
ForeignDst == [Address |-> "10.0.0.10", Port |-> 6443, Family |-> INET,
               Weight |-> 5, FwdMethod |-> Masquerade]

\* the table is shared by the whole host: another of its users attaches a
\* destination with attributes of its own to a registered service
ForeignAttach ==
    /\ \E s \in services :
         LET r == CreateDestination(services, dests, s, ForeignDst, nil)
         IN  r.err = nil /\ services' = r.services /\ dests' = r.dests
    /\ UNCHANGED <<pc, lb, frame, last>>

Next ==
    \/ \E i \in Proc :
        \/ \E in \in VIPInputs : NewIPVSLB(i, in[1], in[2])
        \/ NewIPVSLBRemove(i)
        \/ NewIPVSLBRecreate(i)
        \/ RemoveIPVSLB(i)
        \/ \E in \in BackendInputs : AddBackend(i, in[1], in[2])
        \/ \E in \in BackendInputs : RemoveBackend(i, in[1], in[2])
    \/ ForeignAttach

Spec == Init /\ [][Next]_vars

----------------------------------------------------------------------------
(* Concurrent construction: every instance runs NewIPVSLB once, for the    *)
(* same tuple, and the table calls fail only with "file exists" and "no    *)
(* such process"                                                            *)

\* process i takes the step of its NewIPVSLB whose outcome is o; pc "done"
\* means its NewIPVSLB has returned
RaceStep(i, address, port, o) ==
    /\ services' = o.services
    /\ dests' = o.dests
    /\ IF o.pc = "idle"
       THEN /\ pc' = [pc EXCEPT ![i] = "done"]
            /\ lb' = [lb EXCEPT ![i] = o.lb]
            /\ frame' = [frame EXCEPT ![i] = NilFrame]
            /\ last' = Entry(i, "NewIPVSLB", address, port, o.lb, o.err, o.calls)
       ELSE /\ pc' = [pc EXCEPT ![i] = o.pc]
            /\ frame' = [frame EXCEPT ![i] = o.frame]
            /\ UNCHANGED <<lb, last>>

RaceNewIPVSLB(i, address, port) ==
    /\ pc[i] = "idle"
    /\ RaceStep(i, address, port,
                NewIPVSLBCreate(services, dests, address, port, nil, nil))

RaceRemove(i) ==
    /\ pc[i] = "remove"
    /\ RaceStep(i, frame[i].address, frame[i].port,
                NewIPVSLBRemoveOp(services, dests, frame[i], nil))

RaceRecreate(i) ==
    /\ pc[i] = "recreate"
    /\ RaceStep(i, frame[i].address, frame[i].port,
                NewIPVSLBRecreateOp(services, dests, frame[i], nil))

RaceNext ==
    \E i \in Proc :
        \/ \E in \in VIPInputs : RaceNewIPVSLB(i, in[1], in[2])
        \/ RaceRemove(i)
        \/ RaceRecreate(i)

SpecRace == Init /\ [][RaceNext]_vars

----------------------------------------------------------------------------
(* Properties *)

ServicesFor(svcs, svc) == {s \in svcs : SvcKey(s) = SvcKey(svc)}

BackendsOf(dsts, svc) == {e \in dsts : e.svc = SvcKey(svc)}

\* process i holds a handle, is not inside NewIPVSLB, and the service of the
\* handle is registered
Live(i) ==
    /\ pc[i] = "idle"
    /\ lb[i] # NilLB
    /\ Registered(services, lb[i].loadBalancerService)

CS(err) == Call("CreateService", err)
RS(err) == Call("RemoveService", err)
CD(err) == Call("CreateDestination", err)
RD(err) == Call("RemoveDestination", err)

\* C1: NewIPVSLB for a tuple whose descriptor is already registered (with
\* whatever backends), run with no other failure from the client, returns a
\* handle and no error, and then the table holds exactly one descriptor for
\* the tuple, with zero backends.  Checked from every reachable table, and
\* on every NewIPVSLB that returned after such a sequence of calls.
C1_StaleCreateSucceeds ==
    /\ \A in \in VIPInputs :
        LET svc == NewService(in[1], in[2])
            o1 == NewIPVSLBCreate(services, dests, in[1], in[2], nil, nil)
            o2 == NewIPVSLBRemoveOp(o1.services, o1.dests, o1.frame, nil)
            o3 == NewIPVSLBRecreateOp(o2.services, o2.dests, o2.frame, nil)
        IN  Registered(services, svc) =>
              /\ o1.pc = "remove"
              /\ o2.pc = "recreate"
              /\ o3.pc = "idle"
              /\ o3.err = nil
              /\ o3.lb = NewLB(svc, in[2])
              /\ ServicesFor(o3.services, svc) = {svc}
              /\ BackendsOf(o3.dests, svc) = {}
              /\ o3.services \ {svc} = services \ ServicesFor(services, svc)
    /\ (last.op = "NewIPVSLB" /\ last.calls # << >> /\ last.calls[1] = CS(EEXIST)
        /\ \A k \in 2..Len(last.calls) : last.calls[k].err = nil)
         => /\ last.calls = <<CS(EEXIST), RS(nil), CS(nil)>>
            /\ last.err = nil
            /\ last.lb = NewLB(NewService(last.address, last.port), last.port)

C1_Witness ==
    /\ last.op = "NewIPVSLB"
    /\ last.calls = <<CS(EEXIST), RS(nil), CS(nil)>>
    /\ last.err = nil
    /\ Live(last.proc)
    /\ ServicesFor(services, lb[last.proc].loadBalancerService)
         = {lb[last.proc].loadBalancerService}
    /\ BackendsOf(dests, lb[last.proc].loadBalancerService) = {}

\* the table calls of a NewIPVSLB, finished or in progress, are a prefix of
\* create, remove, create
CallOrder(cs) ==
    /\ Len(cs) <= 3
    /\ \A k \in 1..Len(cs) :
         cs[k].call = (IF k = 2 THEN "RemoveService" ELSE "CreateService")

\* C2 as stated: whenever the first CreateService fails with "file exists",
\* NewIPVSLB issues RemoveService and then retries CreateService exactly once.
C2_Original ==
    (last.op = "NewIPVSLB" /\ last.calls # << >> /\ last.calls[1] = CS(EEXIST))
      => /\ Len(last.calls) = 3
         /\ last.calls[2].call = "RemoveService"
         /\ last.calls[3].call = "CreateService"

\* C2, amended: after "file exists" from the first CreateService, NewIPVSLB
\* issues RemoveService; if that fails it returns an error and no handle
\* without a second CreateService; if it succeeds it retries CreateService
\* exactly once, and a failure of the retry (also "file exists") is returned
\* as an error with no handle.  A NewIPVSLB makes at most two CreateService
\* calls and one RemoveService call, in the order create, remove, create.
C2_RemoveThenRetryOnce ==
    /\ \A i \in Proc :
        /\ pc[i] = "remove" => frame[i].calls = <<CS(EEXIST)>>
        /\ pc[i] = "recreate" => frame[i].calls = <<CS(EEXIST), RS(nil)>>
    /\ last.op = "NewIPVSLB" =>
        /\ CallOrder(last.calls)
        /\ (last.calls # << >> /\ last.calls[1] = CS(EEXIST)) =>
             /\ Len(last.calls) >= 2
             /\ last.calls[2].err # nil =>
                  /\ Len(last.calls) = 2
                  /\ last.err = Errorf(CtxRecreate, last.calls[2].err)
                  /\ last.lb = NilLB
             /\ last.calls[2].err = nil =>
                  /\ Len(last.calls) = 3
                  /\ last.calls[3].err # nil =>
                       /\ last.err = Errorf(CtxRecreate, last.calls[3].err)
                       /\ last.lb = NilLB
        /\ (last.calls # << >> /\ last.calls[1] # CS(EEXIST)) => Len(last.calls) = 1

C2_Witness ==
    /\ last.op = "NewIPVSLB"
    /\ last.calls = <<CS(EEXIST), RS(nil), CS(EEXIST)>>
    /\ last.err = Errorf(CtxRecreate, EEXIST)
    /\ last.lb = NilLB

\* C3: when the first CreateService fails with anything but "file exists",
\* NewIPVSLB returns an error at once: no RemoveService, no second
\* CreateService, no handle, and the table is as before.
C3_OtherFailureIsFatal ==
    /\ \A in \in VIPInputs, fault \in Faults :
        LET o == NewIPVSLBCreate(services, dests, in[1], in[2], nil, fault)
        IN  /\ o.pc = "idle"
            /\ o.err = Errorf(CtxCreate, fault)
            /\ o.lb = NilLB
            /\ o.calls = <<CS(fault)>>
            /\ o.services = services
            /\ o.dests = dests
    /\ (last.op = "NewIPVSLB" /\ last.calls # << >>
        /\ last.calls[1].err # nil /\ ~Contains(last.calls[1].err, EEXIST))
         => /\ Len(last.calls) = 1
            /\ last.err = Errorf(CtxCreate, last.calls[1].err)
            /\ last.lb = NilLB

C3_Witness ==
    /\ last.op = "NewIPVSLB"
    /\ last.calls = <<CS(EPERM)>>
    /\ last.err = Errorf(CtxCreate, EPERM)
    /\ last.lb = NilLB
    /\ services # {}

\* the key under which the backend (address, port) is looked for in the table
BackendKey(in) == [Address |-> ParseIP(in[1]), Port |-> Uint16(in[2])]

KeyEntries(dsts, svc, in) ==
    {e \in BackendsOf(dsts, svc) : DstKey(e.dst) = BackendKey(in)}

\* the handles of the processes that are not inside NewIPVSLB
Handles == {lb[i] : i \in {j \in Proc : pc[j] = "idle"}} \ {NilLB}

LiveHandles == {h \in Handles : Registered(services, h.loadBalancerService)}

\* C4: AddBackend(A, P) twice in sequence on a live service (no transport
\* failure) returns nil both times, leaves exactly one entry for (A, P), and
\* the second call changes nothing in the table.
C4_DuplicateAddIsNoOp ==
    /\ \A h \in LiveHandles, in \in BackendInputs :
        LET svc == h.loadBalancerService
            o1 == AddBackendOp(services, dests, h, in[1], in[2], nil)
            o2 == AddBackendOp(o1.services, o1.dests, h, in[1], in[2], nil)
        IN  /\ o1.err = nil
            /\ o2.err = nil
            /\ o2.calls = <<CD(EEXIST)>>
            /\ Cardinality(KeyEntries(o2.dests, svc, in)) = 1
            /\ o2.dests = o1.dests
            /\ o2.services = o1.services
    /\ (last.op = "AddBackend" /\ last.calls \in {<<CD(nil)>>, <<CD(EEXIST)>>})
         => last.err = nil

C4_Witness ==
    /\ last.op = "AddBackend"
    /\ last.calls = <<CD(EEXIST)>>
    /\ last.err = nil
    /\ Live(last.proc)
    /\ KeyEntries(dests, lb[last.proc].loadBalancerService,
                  <<last.address, last.port>>)
         = {[svc |-> SvcKey(lb[last.proc].loadBalancerService),
             dst |-> AddDestination(last.address, last.port)]}

\* C5: RemoveBackend(A, P) for a key that is not in the backend set of the
\* handle's service returns an error, whatever the table call fails with,
\* and the table is unchanged.
C5_RemoveMissingFails ==
    /\ \A h \in Handles, in \in BackendInputs, fault \in {nil} \cup Faults :
        LET svc == h.loadBalancerService
            o == RemoveBackendOp(services, dests, h, in[1], in[2], fault)
        IN  KeyEntries(dests, svc, in) = {} =>
              /\ o.err # nil
              /\ o.err = Errorf(CtxRemoveBackend, o.calls[1].err)
              /\ (fault = nil /\ Registered(services, svc)) => o.calls = <<RD(ENOENT)>>
              /\ o.dests = dests
              /\ o.services = services
    /\ (last.op = "RemoveBackend" /\ last.calls[1].err # nil)
         => last.err = Errorf(CtxRemoveBackend, last.calls[1].err)

C5_Witness ==
    /\ last.op = "RemoveBackend"
    /\ last.calls = <<RD(ENOENT)>>
    /\ last.err = Errorf(CtxRemoveBackend, ENOENT)
    /\ Live(last.proc)
    /\ KeyEntries(dests, lb[last.proc].loadBalancerService,
                  <<last.address, last.port>>) = {}
    /\ dests # {}

\* C6: from every backend set of a live service, AddBackend(A, P) followed by
\* RemoveBackend(A, P) (no transport failure) both return nil and leave the
\* starting set minus (A, P); a further RemoveBackend(A, P) returns an error.
C6_AddRemoveRoundTrip ==
    \A h \in LiveHandles, in \in BackendInputs :
        LET svc == h.loadBalancerService
            o1 == AddBackendOp(services, dests, h, in[1], in[2], nil)
            o2 == RemoveBackendOp(o1.services, o1.dests, h, in[1], in[2], nil)
            o3 == RemoveBackendOp(o2.services, o2.dests, h, in[1], in[2], nil)
        IN  /\ o1.err = nil
            /\ KeyEntries(o1.dests, svc, in) # {}
            /\ o2.err = nil
            /\ KeyEntries(o2.dests, svc, in) = {}
            /\ o2.dests = dests \ KeyEntries(dests, svc, in)
            /\ o2.services = services
            /\ o3.err = Errorf(CtxRemoveBackend, ENOENT)
            /\ o3.dests = o2.dests

C6_Witness ==
    /\ last.op = "RemoveBackend"
    /\ last.port = 71979
    /\ last.calls = <<RD(nil)>>
    /\ last.err = nil
    /\ Live(last.proc)
    /\ KeyEntries(dests, lb[last.proc].loadBalancerService,
                  <<last.address, last.port>>) = {}
    /\ dests # {}

\* AddBackend or RemoveBackend as a function of the table
Apply(op, svcs, dsts, h, in) ==
    IF op = "AddBackend"
    THEN AddBackendOp(svcs, dsts, h, in[1], in[2], nil)
    ELSE RemoveBackendOp(svcs, dsts, h, in[1], in[2], nil)

\* C7: for distinct backend keys, two AddBackend calls on a live handle
\* return nil in either order and both keys are in the set afterwards; and
\* an AddBackend / RemoveBackend on one key changes neither the result nor
\* the table entry of an AddBackend / RemoveBackend on another key, so that
\* the two orders give the same table.
C7_DistinctKeysIndependent ==
    \A h \in LiveHandles, in1 \in BackendInputs, in2 \in BackendInputs :
        BackendKey(in1) # BackendKey(in2) =>
          LET svc == h.loadBalancerService
              a1 == AddBackendOp(services, dests, h, in1[1], in1[2], nil)
              a2 == AddBackendOp(a1.services, a1.dests, h, in2[1], in2[2], nil)
          IN  /\ a1.err = nil
              /\ a2.err = nil
              /\ KeyEntries(a2.dests, svc, in1) # {}
              /\ KeyEntries(a2.dests, svc, in2) # {}
              /\ \A x \in {"AddBackend", "RemoveBackend"},
                    y \in {"AddBackend", "RemoveBackend"} :
                    LET ox == Apply(x, services, dests, h, in1)
                        oy == Apply(y, services, dests, h, in2)
                        oxy == Apply(y, ox.services, ox.dests, h, in2)
                        oyx == Apply(x, oy.services, oy.dests, h, in1)
                    IN  /\ oxy.err = oy.err
                        /\ KeyEntries(oxy.dests, svc, in2) = KeyEntries(oy.dests, svc, in2)
                        /\ KeyEntries(ox.dests, svc, in2) = KeyEntries(dests, svc, in2)
                        /\ oxy.dests = oyx.dests
                        /\ oxy.services = oyx.services

C7_Witness ==
    /\ last.op = "AddBackend"
    /\ last.calls = <<CD(nil)>>
    /\ Live(last.proc)
    /\ \E in \in BackendInputs :
         /\ BackendKey(in) # BackendKey(<<last.address, last.port>>)
         /\ BackendsOf(dests, lb[last.proc].loadBalancerService)
              = {[svc |-> SvcKey(lb[last.proc].loadBalancerService),
                  dst |-> AddDestination(in[1], in[2])],
                 [svc |-> SvcKey(lb[last.proc].loadBalancerService),
                  dst |-> AddDestination(last.address, last.port)]}

\* C8: RemoveIPVSLB on a live service issues exactly one RemoveService: when
\* it succeeds the descriptor and every backend attached to it are gone (and
\* nothing else); when it fails the error is returned, nothing is retried
\* and the table is unchanged.
C8_RemoveOnceNoRetry ==
    /\ \A h \in LiveHandles :
        LET svc == h.loadBalancerService
            ok == RemoveIPVSLBOp(services, dests, h, nil)
        IN  /\ ok.err = nil
            /\ ok.calls = <<RS(nil)>>
            /\ ok.services = services \ ServicesFor(services, svc)
            /\ ok.dests = dests \ BackendsOf(dests, svc)
            /\ \A fault \in Faults :
                 LET bad == RemoveIPVSLBOp(services, dests, h, fault)
                 IN  /\ bad.err = Errorf(CtxRemove, fault)
                     /\ bad.calls = <<RS(fault)>>
                     /\ bad.services = services
                     /\ bad.dests = dests
    /\ last.op = "RemoveIPVSLB" =>
        /\ Len(last.calls) = 1
        /\ last.calls[1].call = "RemoveService"
        /\ last.err = RemoveIPVSLBErr(last.calls[1].err)
        /\ last.err = nil <=> last.calls[1].err = nil

C8_Witness ==
    /\ last.op = "RemoveIPVSLB"
    /\ last.calls = <<RS(EPERM)>>
    /\ last.err = Errorf(CtxRemove, EPERM)
    /\ Live(last.proc)
    /\ BackendsOf(dests, lb[last.proc].loadBalancerService) # {}

\* C9: in every reachable state the table holds at most one service
\* descriptor per (family, protocol, address, port), at most one backend per
\* (address, port) within a service, and no backend of an unregistered
\* service.
C9_TableInvariants ==
    /\ \A s1 \in services, s2 \in services : SvcKey(s1) = SvcKey(s2) => s1 = s2
    /\ \A e1 \in dests, e2 \in dests :
         (e1.svc = e2.svc /\ DstKey(e1.dst) = DstKey(e2.dst)) => e1 = e2
    /\ \A e \in dests : \E s \in services : SvcKey(s) = e.svc

C9_Witness ==
    /\ last.op = "NewIPVSLB"
    /\ last.err # nil
    /\ Len(last.calls) = 3
    /\ Cardinality(services) = 1
    /\ Cardinality(dests) = 2
    /\ \E i \in Proc : pc[i] = "remove"

\* C10 as stated: the descriptor an instance created, and a backend it
\* added, stay registered as long as that instance has not called Remove
\* (here: no operation at all has returned since its NewIPVSLB or AddBackend
\* returned nil), also while another instance runs NewIPVSLB for the tuple.
C10_Original ==
    \A i \in Proc :
        (last.proc = i /\ last.err = nil /\ pc[i] = "idle" /\ lb[i] # NilLB) =>
          /\ last.op = "NewIPVSLB" => Registered(services, lb[i].loadBalancerService)
          /\ last.op = "AddBackend" =>
               KeyEntries(dests, lb[i].loadBalancerService,
                          <<last.address, last.port>>) # {}

\* C10, amended: a registered descriptor and its backends stay registered
\* across every table call except a RemoveService for its tuple that
\* succeeds, issued by RemoveIPVSLB on a handle for the tuple or by the
\* recovery path of a NewIPVSLB for the same tuple, whichever instance runs
\* it (a backend is also removed by a successful RemoveBackend of its key);
\* the recovery path of another instance's NewIPVSLB removes the descriptor
\* with all its backends.
C10_RemovedOnlyByRemoveService ==
    \A fault \in {nil} \cup Faults :
        /\ \A in \in VIPInputs, newErr \in {nil} \cup Faults :
             LET o == NewIPVSLBCreate(services, dests, in[1], in[2], newErr, fault)
             IN  services \subseteq o.services /\ dests = o.dests
        /\ \A i \in Proc :
             pc[i] = "recreate" =>
               LET o == NewIPVSLBRecreateOp(services, dests, frame[i], fault)
               IN  services \subseteq o.services /\ dests = o.dests
        /\ \A h \in Handles, in \in BackendInputs :
             LET a == AddBackendOp(services, dests, h, in[1], in[2], fault)
                 r == RemoveBackendOp(services, dests, h, in[1], in[2], fault)
             IN  /\ a.services = services /\ dests \subseteq a.dests
                 /\ r.services = services
                 /\ dests \ r.dests \subseteq KeyEntries(dests, h.loadBalancerService, in)
        /\ \A h \in Handles :
             LET o == RemoveIPVSLBOp(services, dests, h, fault)
             IN  /\ services \ o.services
                      \subseteq ServicesFor(services, h.loadBalancerService)
                 /\ dests \ o.dests \subseteq BackendsOf(dests, h.loadBalancerService)
                 /\ o.err # nil => (o.services = services /\ o.dests = dests)
        /\ \A i \in Proc :
             pc[i] = "remove" =>
               LET o == NewIPVSLBRemoveOp(services, dests, frame[i], fault)
               IN  /\ services \ o.services \subseteq ServicesFor(services, frame[i].svc)
                   /\ dests \ o.dests \subseteq BackendsOf(dests, frame[i].svc)
                   /\ o.pc = "idle" => (o.services = services /\ o.dests = dests)
                   /\ (fault = nil /\ Registered(services, frame[i].svc)) =>
                        /\ o.pc = "recreate"
                        /\ ServicesFor(o.services, frame[i].svc) = {}
                        /\ BackendsOf(o.dests, frame[i].svc) = {}

C10_Witness ==
    \E i \in Proc, j \in Proc :
        /\ i # j
        /\ last.proc = i
        /\ last.op = "AddBackend"
        /\ last.err = nil
        /\ pc[i] = "idle"
        /\ lb[i] # NilLB
        /\ pc[j] = "recreate"
        /\ SvcKey(frame[j].svc) = SvcKey(lb[i].loadBalancerService)
        /\ ~Registered(services, lb[i].loadBalancerService)
        /\ dests = {}

\* the table call a context names: both contexts of NewIPVSLB speak of
\* creating the service
ContextCall(ctx) ==
    CASE ctx = CtxCreate -> "CreateService"
      [] ctx = CtxRecreate -> "CreateService"
      [] ctx = CtxRemove -> "RemoveService"
      [] ctx = CtxAddBackend -> "CreateDestination"
      [] ctx = CtxRemoveBackend -> "RemoveDestination"

\* C11: every error an operation returns because a table call failed is the
\* error of that call under a context that names the call that failed
\* (create service, remove service, create backend, remove backend); a
\* failed RemoveService is never returned under a create-service context,
\* the recovery path of NewIPVSLB included.
C11_ContextNamesFailedCall ==
    (last.err # nil /\ last.calls # << >>) =>
      LET failed == last.calls[Len(last.calls)]
      IN  \E ctx \in {CtxCreate, CtxRecreate, CtxRemove, CtxAddBackend,
                      CtxRemoveBackend} :
            /\ last.err = Errorf(ctx, failed.err)
            /\ ContextCall(ctx) = failed.call

\* C12: AddBackend(A, P) and RemoveBackend(A, P), whether they succeed or
\* fail, leave the service descriptors and every backend entry whose key is
\* not (A, P) as they were; a call that returns an error leaves the entry
\* for (A, P) as it was too.
C12_BackendOpsFrame ==
    \A h \in Handles, in \in BackendInputs, fault \in {nil} \cup Faults :
        LET svc == h.loadBalancerService
            a == AddBackendOp(services, dests, h, in[1], in[2], fault)
            r == RemoveBackendOp(services, dests, h, in[1], in[2], fault)
        IN  /\ a.services = services
            /\ r.services = services
            /\ a.dests \ KeyEntries(a.dests, svc, in)
                 = dests \ KeyEntries(dests, svc, in)
            /\ r.dests \ KeyEntries(r.dests, svc, in)
                 = dests \ KeyEntries(dests, svc, in)
            /\ a.err # nil => a.dests = dests
            /\ r.err # nil => r.dests = dests

C12_Witness ==
    /\ last.op = "RemoveBackend"
    /\ last.err # nil
    /\ last.calls = <<RD(EPERM)>>
    /\ Live(last.proc)
    /\ KeyEntries(dests, last.lb.loadBalancerService,
                  <<last.address, last.port>>) # {}
    /\ BackendsOf(dests, last.lb.loadBalancerService)
         \ KeyEntries(dests, last.lb.loadBalancerService,
                      <<last.address, last.port>>) # {}

\* C13: AddBackend(A, P) on a live handle while the entry for (A, P) has
\* another weight or forwarding method than weight 1 and local forwarding
\* returns nil (no transport failure) and leaves the entry with the
\* attributes it had: the table is not changed.
C13_ConflictingEntryKept ==
    \A h \in LiveHandles, in \in BackendInputs :
        LET svc == h.loadBalancerService
            old == KeyEntries(dests, svc, in)
            a == AddBackendOp(services, dests, h, in[1], in[2], nil)
        IN  (\E e \in old : e.dst.Weight # 1 \/ e.dst.FwdMethod # "Local") =>
              /\ a.err = nil
              /\ a.calls = <<CD(EEXIST)>>
              /\ a.dests = dests
              /\ a.services = services
              /\ KeyEntries(a.dests, svc, in) = old

C13_Witness ==
    /\ last.op = "AddBackend"
    /\ last.calls = <<CD(EEXIST)>>
    /\ last.err = nil
    /\ Live(last.proc)
    /\ KeyEntries(dests, last.lb.loadBalancerService,
                  <<last.address, last.port>>)
         = {[svc |-> SvcKey(last.lb.loadBalancerService),
             dst |-> [Address |-> "10.0.0.10", Port |-> 6443, Family |-> "INET",
                      Weight |-> 5, FwdMethod |-> "Masquerade"]]}

\* a step of NewIPVSLB that returns a handle returns no error, and leaves the
\* descriptor of the handle registered with no backend
HandleIsFresh(o) ==
    (o.pc = "idle" /\ o.lb # NilLB) =>
      /\ o.err = nil
      /\ o.calls[Len(o.calls)] = CS(nil)
      /\ ServicesFor(o.services, o.lb.loadBalancerService)
           = {o.lb.loadBalancerService}
      /\ BackendsOf(o.dests, o.lb.loadBalancerService) = {}

\* C14: whenever NewIPVSLB returns a handle, the last table call it made is
\* a CreateService that succeeded, so that at the return the descriptor is
\* registered with an empty backend set; NewIPVSLB never returns a handle
\* together with an error, nor a handle when its last table call failed.
C14_HandleOnlyAfterCreate ==
    /\ \A fault \in {nil} \cup Faults :
        /\ \A in \in VIPInputs, newErr \in {nil} \cup Faults :
             HandleIsFresh(NewIPVSLBCreate(services, dests, in[1], in[2],
                                           newErr, fault))
        /\ \A i \in Proc :
             /\ pc[i] = "remove" =>
                  HandleIsFresh(NewIPVSLBRemoveOp(services, dests, frame[i], fault))
             /\ pc[i] = "recreate" =>
                  HandleIsFresh(NewIPVSLBRecreateOp(services, dests, frame[i], fault))
    /\ last.op = "NewIPVSLB" =>
         /\ last.lb # NilLB =>
              /\ last.err = nil
              /\ last.calls # << >>
              /\ last.calls[Len(last.calls)] = CS(nil)
         /\ last.err # nil => last.lb = NilLB
         /\ (last.calls # << >> /\ last.calls[Len(last.calls)].err # nil)
              => last.lb = NilLB

C14_Witness ==
    /\ last.op = "NewIPVSLB"
    /\ last.port = 71979
    /\ last.calls = <<CS(nil)>>
    /\ last.err = nil
    /\ last.lb # NilLB
    /\ services = {last.lb.loadBalancerService}
    /\ dests = {}
    /\ \A i \in Proc : pc[i] = "idle"

\* C15: every service descriptor NewIPVSLB registers has protocol TCP and
\* the round-robin scheduler, and every backend entry AddBackend registers
\* has weight 1 and local forwarding, whatever address and port the caller
\* passes.
C15_FixedAttributes ==
    \A fault \in {nil} \cup Faults :
        /\ \A in \in VIPInputs, newErr \in {nil} \cup Faults :
             LET o == NewIPVSLBCreate(services, dests, in[1], in[2], newErr, fault)
             IN  \A s \in o.services \ services :
                     s.Protocol = "TCP" /\ s.Scheduler = "rr"
        /\ \A i \in Proc :
             pc[i] = "recreate" =>
               LET o == NewIPVSLBRecreateOp(services, dests, frame[i], fault)
               IN  \A s \in o.services \ services :
                       s.Protocol = "TCP" /\ s.Scheduler = "rr"
        /\ \A h \in Handles, in \in BackendInputs :
             LET a == AddBackendOp(services, dests, h, in[1], in[2], fault)
             IN  \A e \in a.dests \ dests :
                     e.dst.Weight = 1 /\ e.dst.FwdMethod = "Local"

C15_Witness ==
    /\ last.op = "AddBackend"
    /\ last.address = "10.0.0.11"
    /\ last.calls = <<CD(nil)>>
    /\ \E s \in services :
         /\ s.Protocol = "TCP" /\ s.Scheduler = "rr"
         /\ SvcKey(s) = SvcKey(last.lb.loadBalancerService)
    /\ \E e \in BackendsOf(dests, last.lb.loadBalancerService) :
         /\ e.dst.Address = "10.0.0.11"
         /\ e.dst.Weight = 1 /\ e.dst.FwdMethod = "Local"

\* the table calls of a NewIPVSLB that returns an error
FailedCreateCalls ==
    {<< >>}
      \cup {<<CS(e)>> : e \in Faults}
      \cup {<<CS(EEXIST), RS(e)>> : e \in {ESRCH} \cup Faults}
      \cup {<<CS(EEXIST), RS(nil), CS(e)>> : e \in {EEXIST} \cup Faults}

\* what C16 says of every step of NewIPVSLB but the second CreateService
FailedCreateFrame(fault) ==
    /\ \A in \in VIPInputs, newErr \in {nil} \cup Faults :
         LET o == NewIPVSLBCreate(services, dests, in[1], in[2], newErr, fault)
         IN  (o.pc = "idle" /\ o.err # nil) =>
               (o.services = services /\ o.dests = dests)
    /\ \A i \in Proc :
         pc[i] = "remove" =>
           LET o == NewIPVSLBRemoveOp(services, dests, frame[i], fault)
           IN  /\ o.pc = "idle" =>
                    (o.err # nil /\ o.services = services /\ o.dests = dests)
               /\ o.pc = "recreate" =>
                    /\ ServicesFor(o.services, frame[i].svc) = {}
                    /\ BackendsOf(o.dests, frame[i].svc) = {}
                    /\ o.services = services \ ServicesFor(services, frame[i].svc)
    /\ (last.op = "NewIPVSLB" /\ last.err # nil) => last.calls \in FailedCreateCalls

\* C16 as stated: a NewIPVSLB that returns an error has left the table
\* unchanged, or its RemoveService succeeded and its second CreateService
\* failed, and then no descriptor for the tuple is registered and the
\* backends are gone.
C16_Original ==
    \A fault \in {nil} \cup Faults :
        /\ FailedCreateFrame(fault)
        /\ \A i \in Proc :
             pc[i] = "recreate" =>
               LET o == NewIPVSLBRecreateOp(services, dests, frame[i], fault)
               IN  o.err # nil =>
                     /\ ServicesFor(o.services, frame[i].svc) = {}
                     /\ BackendsOf(o.dests, frame[i].svc) = {}

\* C16, amended: a NewIPVSLB that returns an error has left the table
\* unchanged (its first CreateService failed with another error than "file
\* exists", or its RemoveService failed), or its RemoveService succeeded,
\* removing the descriptor with all its backends, and its second
\* CreateService failed.  That CreateService registers nothing; with no
\* transport failure it fails only with "file exists", and a descriptor for
\* the tuple is registered at the return exactly when another instance has
\* registered one since the RemoveService.
C16_FailedCreateEffect ==
    \A fault \in {nil} \cup Faults :
        /\ FailedCreateFrame(fault)
        /\ \A i \in Proc :
             pc[i] = "recreate" =>
               LET o == NewIPVSLBRecreateOp(services, dests, frame[i], fault)
                   there == ServicesFor(services, frame[i].svc)
               IN  /\ there \subseteq {frame[i].svc}
                   /\ o.err # nil =>
                         /\ o.services = services /\ o.dests = dests
                         /\ there = {} =>
                              (fault # nil /\ BackendsOf(o.dests, frame[i].svc) = {})
                         /\ fault = nil =>
                              (o.calls[3] = CS(EEXIST) /\ there # {})

C16_Witness ==
    /\ last.op = "NewIPVSLB"
    /\ last.calls = <<CS(EEXIST), RS(nil), CS(EPERM)>>
    /\ last.err = Errorf(CtxRecreate, EPERM)
    /\ last.lb = NilLB
    /\ services = {}
    /\ dests = {}
    /\ \A i \in Proc : pc[i] = "idle"

\* C17: when the instances run NewIPVSLB concurrently for the same tuple,
\* with or without a descriptor left in the table and with no failure other
\* than "file exists" and "no such process", then under every interleaving
\* of their table calls at least one NewIPVSLB returns a handle, and once
\* all have returned exactly one descriptor for the tuple is registered, the
\* one every handle returned refers to.
C17_RaceLeavesOneService ==
    (\A i \in Proc : pc[i] = "done") =>
      /\ \E i \in Proc : lb[i] # NilLB
      /\ \E s \in services :
           /\ services = {s}
           /\ s.Address = "10.0.0.1" /\ s.Port = 6443 /\ s.Scheduler = "rr"
           /\ \A i \in Proc : lb[i] # NilLB => lb[i].loadBalancerService = s

C17_Witness ==
    /\ \A i \in Proc : pc[i] = "done"
    /\ \E i \in Proc : lb[i] = NilLB
    /\ \E i \in Proc : lb[i] # NilLB
    /\ last.calls = <<CS(EEXIST), RS(nil), CS(nil)>>
    /\ Cardinality(services) = 1

\* the entries of svc for address and an in-range port
PortEntries(dsts, svc, address, port) ==
    {e \in BackendsOf(dsts, svc) :
        e.dst.Address = ParseIP(address) /\ e.dst.Port = port}

\* C18: ports are not range-checked but reduced modulo 2^16 in the table
\* keys.  NewIPVSLB, AddBackend and RemoveBackend with port p + 65536
\* address the key of port p: the AddBackend of one after the other is
\* swallowed as a duplicate, the RemoveBackend of one removes the entry of
\* the other, NewIPVSLB for p + 65536 meets the descriptor of p, port 65536
\* gives port 0, and the Port of the handle keeps the value passed, which
\* then differs from the port of the registered descriptor.
C18_PortsWrap ==
    /\ \A h \in LiveHandles, in \in {x \in BackendInputs : x[2] < 65536} :
         LET svc == h.loadBalancerService
             hi == in[2] + 65536
             a1 == AddBackendOp(services, dests, h, in[1], in[2], nil)
             a2 == AddBackendOp(a1.services, a1.dests, h, in[1], hi, nil)
             b1 == AddBackendOp(services, dests, h, in[1], hi, nil)
             b2 == AddBackendOp(b1.services, b1.dests, h, in[1], in[2], nil)
             r1 == RemoveBackendOp(a1.services, a1.dests, h, in[1], hi, nil)
             r2 == RemoveBackendOp(b1.services, b1.dests, h, in[1], in[2], nil)
             z == AddBackendOp(services, dests, h, in[1], 65536, nil)
         IN  /\ a2.err = nil /\ a2.calls = <<CD(EEXIST)>> /\ a2.dests = a1.dests
             /\ b2.err = nil /\ b2.calls = <<CD(EEXIST)>> /\ b2.dests = b1.dests
             /\ PortEntries(b1.dests, svc, in[1], in[2]) # {}
             /\ \A e \in b1.dests : e.dst.Port < 65536
             /\ r1.err = nil /\ PortEntries(r1.dests, svc, in[1], in[2]) = {}
             /\ r2.err = nil /\ PortEntries(r2.dests, svc, in[1], in[2]) = {}
             /\ z.err = nil /\ PortEntries(z.dests, svc, in[1], 0) # {}
    /\ \A in \in {x \in VIPInputs : x[2] < 65536} :
         LET lo == NewIPVSLBCreate(services, dests, in[1], in[2], nil, nil)
             hi == NewIPVSLBCreate(services, dests, in[1], in[2] + 65536, nil, nil)
             z == NewIPVSLBCreate(services, dests, in[1], 65536, nil, nil)
         IN  /\ hi.pc = lo.pc
             /\ hi.calls = lo.calls
             /\ hi.services = lo.services
             /\ hi.lb # NilLB =>
                  /\ hi.lb.Port = in[2] + 65536
                  /\ hi.lb.loadBalancerService.Port = in[2]
                  /\ hi.lb.loadBalancerService = lo.lb.loadBalancerService
             /\ \A s \in z.services \ services : s.Port = 0
             /\ z.lb # NilLB => (z.lb.Port = 65536 /\ z.services # services)
    /\ (last.op = "NewIPVSLB" /\ last.lb # NilLB) =>
         /\ last.lb.Port = last.port
         /\ last.lb.loadBalancerService.Port
              = last.port - 65536 * (last.port \div 65536)

C18_Witness ==
    /\ last.op = "RemoveBackend"
    /\ last.port = 71979
    /\ last.calls = <<RD(nil)>>
    /\ last.err = nil
    /\ last.lb.Port = 71979
    /\ last.lb.loadBalancerService.Port = 6443
    /\ PortEntries(dests, last.lb.loadBalancerService, last.address, 6443) = {}
    /\ Live(last.proc)

\* C19: on a handle whose service is not registered (RemoveIPVSLB succeeded
\* on it and no instance has created the service again), every AddBackend,
\* RemoveBackend and RemoveIPVSLB returns an error and leaves the table as
\* it was.
C19_DeadHandleFails ==
    \A h \in Handles \ LiveHandles, fault \in {nil} \cup Faults :
        /\ LET x == RemoveIPVSLBOp(services, dests, h, fault)
           IN  x.err # nil /\ x.services = services /\ x.dests = dests
        /\ \A in \in BackendInputs :
             LET a == AddBackendOp(services, dests, h, in[1], in[2], fault)
                 r == RemoveBackendOp(services, dests, h, in[1], in[2], fault)
             IN  /\ a.err # nil /\ a.services = services /\ a.dests = dests
                 /\ r.err # nil /\ r.services = services /\ r.dests = dests

C19_Witness ==
    /\ last.op = "AddBackend"
    /\ last.calls = <<CD(ESRCH)>>
    /\ last.err = Errorf(CtxAddBackend, ESRCH)
    /\ last.lb # NilLB
    /\ lb[last.proc] = last.lb
    /\ services = {}
    /\ dests = {}

====
